---- MODULE Spec2Model ----
(***************************************************************************)
(* BEV intensity rasterisation pipeline of lane-assist-poc.                *)
(*                                                                         *)
(*   tools/make_bev_intensity.py  : parse_frame_range, rasterize_bev,      *)
(*                                  normalize_intensity,                   *)
(*                                  save_png_with_metadata, main           *)
(*   simple_bev_generator.py      : rasterize_bev, save_bev_image,         *)
(*                                  process_tfrecord                       *)
(*   convert_laz_to_png.py        : convert_laz_to_intensity_png (row of a *)
(*                                  point)                                 *)
(*   tools/extract_lidar_to_ply.py, tools/extract_camera_pngs.py : the     *)
(*                                  frame loop of main                     *)
(*                                                                         *)
(* The specifications share the variables: Spec is a run of                *)
(* make_bev_intensity.main, SpecSimple a call of process_tfrecord,         *)
(* SpecTools a run of either of the two, SpecExtract a run of an extract   *)
(* tool, SpecRaster applies the rasterisers to one frame and SpecNorm      *)
(* applies normalize_intensity to one grid.                                *)
(*                                                                         *)
(* World coordinates and the resolution are integers in one common length  *)
(* unit, so that a point can lie a fraction of a cell away from an extent  *)
(* edge.  Cell values are exact rationals <<n, d>> in lowest terms (the    *)
(* code holds them as float32).  Python's None is the empty tuple << >>,   *)
(* a present value v is <<v>>.                                             *)
(***************************************************************************)
EXTENDS Integers, Sequences, FiniteSets, TLC

VARIABLES
    args,        \* the run configuration (argparse namespace)
    r_pc,        \* rasteriser study: "input" | "done" | "raised"
    points,      \* rasteriser study: the frame's points, in supplied order
    grid,        \* rasteriser study: result of tools/make_bev_intensity.rasterize_bev
    bev_grid,    \* rasteriser study: result of simple_bev_generator.rasterize_bev
    pc,              \* main: "start" | "loop" | "finish" | "done" | "aborted"
    uncaught,        \* main: name of the exception that left main ("" for none)
    start_frame,     \* main: parse_frame_range(args.frames)[0]
    end_frame,       \* main: parse_frame_range(args.frames)[1]
    frame_count,     \* main
    processed_count, \* main
    composite_grid,  \* main: << >> (None) or <<grid>>
    pngs,            \* output directory: file name -> image written by cv2.imwrite
    metas,           \* output directory: file name -> metadata JSON document
    summary,         \* output directory: << >> or <<processing_summary.json>>
    trace,           \* what became of each record the dataset yielded, in stream order
    extracted,       \* the points extracted from each of those records (<< >> if none were)
    n_pc,        \* normaliser study: "input" | "done"
    n_grid,      \* normaliser study: the grid handed to normalize_intensity
    n_method,    \* normaliser study: the method handed to normalize_intensity
    normalized,  \* normaliser study: << >> or <<what normalize_intensity did>>
    s_pc,             \* process_tfrecord: "idle" | "loop" | "done" | "failed"
    max_frames,       \* process_tfrecord: the max_frames argument
    s_frame_count,    \* process_tfrecord: frame_count
    processed_frames, \* process_tfrecord: the list of per-frame records
    s_pngs,           \* process_tfrecord's output directory: file name -> image
    s_metas,          \* process_tfrecord's output directory: file name -> metadata
    s_summary,        \* process_tfrecord's output directory: << >> or <<summary>>
    s_trace,          \* what became of each record the loop consumed
    e_pc,              \* extract tools: "idle" | "loop" | "done" | "aborted"
    tool,              \* extract tools: "lidar" (extract_lidar_to_ply) | "camera"
    every,             \* extract tools: args.every
    e_max_frames,      \* extract tools: args.max_frames, << >> when not given
    e_frame_count,     \* extract tools: frame_count
    e_processed_count, \* extract tools: processed_count
    e_files,           \* extract tools: the files in the output directory
    e_trace            \* extract tools: what became of each record consumed

rastervars == <<r_pc, points, grid, bev_grid>>

mainvars == <<pc, uncaught, start_frame, end_frame, frame_count, processed_count,
              composite_grid, pngs, metas, summary, trace, extracted>>

normvars == <<n_pc, n_grid, n_method, normalized>>

simplevars == <<s_pc, max_frames, s_frame_count, processed_frames, s_pngs,
                s_metas, s_summary, s_trace>>

extractvars == <<e_pc, tool, every, e_max_frames, e_frame_count,
                 e_processed_count, e_files, e_trace>>

vars == <<args, rastervars, mainvars, normvars, simplevars, extractvars>>

(***************************************************************************)
(* Bounds of the model.                                                    *)
(***************************************************************************)
MaxPoints == 3
MaxFrames == 3
NormWidth == 3

(***************************************************************************)
(* Arithmetic helpers.                                                     *)
(***************************************************************************)
Abs(n) == IF n < 0 THEN -n ELSE n

RECURSIVE Gcd(_, _)
Gcd(a, b) == IF b = 0 THEN a ELSE Gcd(b, a % b)

\* Python int(a / b) and numpy .astype(int) of a / b: truncation toward zero.
IntTrunc(a, b) ==
    IF (a >= 0) = (b > 0) THEN Abs(a) \div Abs(b) ELSE -(Abs(a) \div Abs(b))

\* Exact rationals in lowest terms with a positive denominator.
Rat(n, d) ==
    LET s == IF d < 0 THEN -1 ELSE 1
        g == Gcd(Abs(n), Abs(d))
    IN  IF n = 0 THEN <<0, 1>> ELSE <<(s * n) \div g, (s * d) \div g>>

RInt(n) == <<n, 1>>
RZero == <<0, 1>>
RAdd(p, q) == Rat(p[1] * q[2] + q[1] * p[2], p[2] * q[2])
RSub(p, q) == Rat(p[1] * q[2] - q[1] * p[2], p[2] * q[2])
RMul(p, q) == Rat(p[1] * q[1], p[2] * q[2])
RDiv(p, q) == Rat(p[1] * q[2], p[2] * q[1])
RLess(p, q) == p[1] * q[2] < q[1] * p[2]
RMax(p, q) == IF RLess(p, q) THEN q ELSE p

(***************************************************************************)
(* Grids: a numpy array of shape (h, w) is [h, w, cells], rows 0..h-1 and  *)
(* columns 0..w-1, cells indexed <<row, col>>.                             *)
(***************************************************************************)
Cells(h, w) == (0 .. h - 1) \X (0 .. w - 1)

Zeros(h, w) == [h |-> h, w |-> w, cells |-> [c \in Cells(h, w) |-> RZero]]

IntZeros(h, w) == [c \in Cells(h, w) |-> 0]

\* np.clip(v, lo, hi) = minimum(maximum(v, lo), hi)
Clip(v, lo, hi) ==
    LET m == IF v < lo THEN lo ELSE v
    IN  IF m > hi THEN hi ELSE m

(***************************************************************************)
(* tools/make_bev_intensity.rasterize_bev                                   *)
(***************************************************************************)
\* variant: one more column, as convert_laz_to_png sizes its raster
WidthPlusOne(a) == IntTrunc(a.xmax - a.xmin, a.res) + 1

Width(a) == IntTrunc(a.xmax - a.xmin, a.res)

Height(a) == IntTrunc(a.ymax - a.ymin, a.res)

\* variant: the upper x bound is not tested
InExtentMaskNoUpperX(a, p) ==
    /\ p.x >= a.xmin
    /\ p.y >= a.ymin /\ p.y < a.ymax

\* valid_mask
InExtentMask(a, p) ==
    /\ p.x >= a.xmin /\ p.x < a.xmax
    /\ p.y >= a.ymin /\ p.y < a.ymax

\* pixel_x / pixel_y after the clamp to the grid boundaries
PixelX(a, p) == Clip(IntTrunc(p.x - a.xmin, a.res), 0, Width(a) - 1)

PixelY(a, p) == Clip(IntTrunc(p.y - a.ymin, a.res), 0, Height(a) - 1)

\* variant: the last point of a cell wins
OverwriteUpdate(old, intensity) == RInt(intensity)

\* one iteration of the max loop: intensity_grid[py, px] = max(old, intensity)
MaxUpdate(old, intensity) == RMax(old, RInt(intensity))

\* one iteration of the mean loop: intensity_grid[py, px] += intensity
SumUpdate(old, intensity) == RAdd(old, RInt(intensity))

\* the for-loop over the valid points, from index i on; st = [ig, cg]
RECURSIVE ReduceLoop(_, _, _, _)
ReduceLoop(a, valid, i, st) ==
    IF i > Len(valid) THEN st
    ELSE LET p  == valid[i]
             c  == <<PixelY(a, p), PixelX(a, p)>>
             nv == IF a.reducer = "max"
                   THEN MaxUpdate(st.ig[c], p.intensity)
                   ELSE SumUpdate(st.ig[c], p.intensity)
         IN  ReduceLoop(a, valid, i + 1,
                        [ig |-> [st.ig EXCEPT ![c] = nv],
                         cg |-> [st.cg EXCEPT ![c] = @ + 1]])

\* variant: the sums are returned undivided
MeanDivideSkipped(st) == st.ig

\* intensity_grid[nonzero_mask] /= count_grid[nonzero_mask]
MeanDivide(st) ==
    [c \in DOMAIN st.ig |->
        IF st.cg[c] > 0 THEN RDiv(st.ig[c], RInt(st.cg[c])) ELSE st.ig[c]]

\* np.zeros((height, width)) raises ValueError on a negative dimension
RasterizeRaises(a) == Width(a) < 0 \/ Height(a) < 0

\* intensity_grid[pixel_y[i], pixel_x[i]] raises IndexError: on an axis of
\* size 0 the clamp to (0, size - 1) yields -1, which is out of bounds
LoopRaises(a, pts) ==
    /\ Height(a) = 0 \/ Width(a) = 0
    /\ \E i \in 1 .. Len(pts) :
           /\ InExtentMask(a, pts[i])
           /\ <<PixelY(a, pts[i]), PixelX(a, pts[i])>>
                  \notin Cells(Height(a), Width(a))

rasterize_bev(pts, a) ==
    LET h     == Height(a)
        w     == Width(a)
        valid == SelectSeq(pts, LAMBDA p : InExtentMask(a, p))
        st    == ReduceLoop(a, valid, 1,
                            [ig |-> Zeros(h, w).cells, cg |-> IntZeros(h, w)])
    IN  IF Len(pts) = 0 THEN Zeros(h, w)
        ELSE IF Len(valid) = 0 THEN Zeros(h, w)
        ELSE IF LoopRaises(a, pts) THEN Zeros(0, 0)
        ELSE IF a.reducer = "max" THEN [h |-> h, w |-> w, cells |-> st.ig]
        ELSE IF a.reducer = "mean" THEN [h |-> h, w |-> w, cells |-> MeanDivide(st)]
        ELSE Zeros(h, w)

(***************************************************************************)
(* simple_bev_generator.rasterize_bev                                      *)
(***************************************************************************)
XGrid(a, p) == IntTrunc(p.x - a.xmin, a.res)

YGrid(a, p) == IntTrunc(p.y - a.ymin, a.res)

\* valid_mask on the grid coordinates
GridMask(a, p) ==
    /\ XGrid(a, p) >= 0 /\ XGrid(a, p) < Width(a)
    /\ YGrid(a, p) >= 0 /\ YGrid(a, p) < Height(a)

RECURSIVE SimpleLoop(_, _, _, _)
SimpleLoop(a, valid, i, g) ==
    IF i > Len(valid) THEN g
    ELSE LET p == valid[i]
             c == <<YGrid(a, p), XGrid(a, p)>>
         IN  SimpleLoop(a, valid, i + 1,
                        [g EXCEPT ![c] = RMax(@, RInt(p.intensity))])

simple_rasterize_bev(pts, a) ==
    LET h     == Height(a)
        w     == Width(a)
        valid == SelectSeq(pts, LAMBDA p : GridMask(a, p))
    IN  [h |-> h, w |-> w, cells |-> SimpleLoop(a, valid, 1, Zeros(h, w).cells)]

(***************************************************************************)
(* convert_laz_to_png.convert_laz_to_intensity_png: the row of a point.    *)
(* The raster spans the bounding box of the file's points.                 *)
(***************************************************************************)
\* y_max = y.max()
LazYMax(pts) == CHOOSE m \in {pts[i].y : i \in 1 .. Len(pts)} :
                    \A i \in 1 .. Len(pts) : pts[i].y <= m

\* py = ((y_max - y) / resolution).astype(int)
LazPy(pts, resolution, p) == IntTrunc(LazYMax(pts) - p.y, resolution)

(***************************************************************************)
(* Inputs of the rasteriser study.                                         *)
(***************************************************************************)
Reducers == {"max", "mean"}

\* extents <<xmin, xmax, ymin, ymax>>: a multiple of every resolution, and
\* one that leaves a fraction of a cell at the upper edges
ValidExtents == {<<0, 4, 0, 2>>, <<0, 5, 0, 3>>}

ValidResolutions == {1, 2}

MkArgs(e, res, reducer, method, composite, frames) ==
    [xmin |-> e[1], xmax |-> e[2], ymin |-> e[3], ymax |-> e[4], res |-> res,
     reducer |-> reducer, normalize_method |-> method,
     composite |-> composite, frames |-> frames, tfrecord_exists |-> TRUE]

AllFrames == [form |-> "all", s |-> << >>, e |-> << >>]

\* an extent that is lower than one cell: the grid has no row
NarrowExtent == <<0, 4, 1, 2>>

RasterArgs ==
    {MkArgs(e, r, red, "minmax", FALSE, AllFrames) :
        e \in ValidExtents, r \in ValidResolutions, red \in Reducers}
    \cup {MkArgs(NarrowExtent, 2, red, "minmax", FALSE, AllFrames) : red \in Reducers}

Pt(x, y, i) == [x |-> x, y |-> y, intensity |-> i]

\* three points of one cell; two in the upper x fringe of <<0, 5, ..>>; one
\* just below xmin, one at or above xmax, one just below ymin and one in
\* the upper y fringe of <<.., 0, 3>>
Points ==
    {Pt(1, 1, 1), Pt(1, 1, 2), Pt(1, 1, 3), Pt(4, 1, 1), Pt(4, 1, 3),
     Pt(-1, 1, 3), Pt(5, 1, 2), Pt(1, -1, 3), Pt(1, 2, 2)}

NoGrid == [h |-> 0, w |-> 0, cells |-> << >>]

\* no extract tool is run
ExtractIdle ==
    /\ e_pc = "idle" /\ tool = "" /\ every = 0 /\ e_max_frames = << >>
    /\ e_frame_count = 0 /\ e_processed_count = 0
    /\ e_files = {} /\ e_trace = << >>

\* process_tfrecord is not called
SimpleIdle ==
    /\ s_pc = "idle" /\ max_frames = 0 /\ s_frame_count = 0
    /\ processed_frames = << >>
    /\ s_pngs = << >> /\ s_metas = << >> /\ s_summary = << >>
    /\ s_trace = << >>

\* outside the normaliser study
NormIdle ==
    /\ n_pc = "idle" /\ n_grid = NoGrid /\ n_method = "" /\ normalized = << >>

\* the rasteriser study starts no run
MainIdle ==
    /\ pc = "idle" /\ uncaught = ""
    /\ start_frame = << >> /\ end_frame = << >>
    /\ frame_count = 0 /\ processed_count = 0
    /\ composite_grid = << >>
    /\ pngs = << >> /\ metas = << >> /\ summary = << >>
    /\ trace = << >> /\ extracted = << >>

RInit ==
    /\ args \in RasterArgs
    /\ r_pc = "input"
    /\ points = << >>
    /\ grid = NoGrid
    /\ bev_grid = NoGrid
    /\ MainIdle
    /\ NormIdle
    /\ SimpleIdle
    /\ ExtractIdle

\* the caller supplies one more point of the frame
AddPoint ==
    /\ r_pc = "input"
    /\ Len(points) < MaxPoints
    /\ \E p \in Points : points' = Append(points, p)
    /\ UNCHANGED <<args, r_pc, grid, bev_grid, mainvars, normvars, simplevars, extractvars>>

\* both rasterisers are applied to the frame; "raised" when
\* tools/make_bev_intensity.rasterize_bev raises
Rasterize ==
    /\ r_pc = "input"
    /\ grid' = IF LoopRaises(args, points) THEN NoGrid
               ELSE rasterize_bev(points, args)
    /\ bev_grid' = simple_rasterize_bev(points, args)
    /\ r_pc' = IF LoopRaises(args, points) THEN "raised" ELSE "done"
    /\ UNCHANGED <<args, points, mainvars, normvars, simplevars, extractvars>>

RNext == AddPoint \/ Rasterize

SpecRaster == RInit /\ [][RNext]_vars

(***************************************************************************)
(* tools/make_bev_intensity.normalize_intensity                            *)
(***************************************************************************)
Floor(q) == q[1] \div q[2]

\* the cell values of S in ascending order
RECURSIVE SortedValues(_, _)
SortedValues(cells, S) ==
    IF S = {} THEN << >>
    ELSE LET c == CHOOSE d \in S : \A e \in S : ~RLess(cells[e], cells[d])
         IN  <<cells[c]>> \o SortedValues(cells, S \ {c})

\* np.percentile(sorted, q), linear interpolation, for a non-empty array
Percentile(sorted, q) ==
    LET pos  == Rat(q * (Len(sorted) - 1), 100)
        j    == Floor(pos)
        frac == RSub(pos, RInt(j))
        lo   == sorted[j + 1]
        hi   == IF j + 2 <= Len(sorted) THEN sorted[j + 2] ELSE lo
    IN  RAdd(lo, RMul(frac, RSub(hi, lo)))

\* .astype(np.uint8) of a value in [0, 255]
AsUint8(q) == Floor(q)

RClip(q, lo, hi) == IF RLess(q, lo) THEN lo ELSE IF RLess(hi, q) THEN hi ELSE q

\* variant: the lower end of the range is not subtracted
Scale255NoOffset(v, lo, hi) == RMul(RDiv(v, RSub(hi, lo)), RInt(255))

Scale255(v, lo, hi) == RMul(RDiv(RSub(v, lo), RSub(hi, lo)), RInt(255))

ZeroImage(g) == [h |-> g.h, w |-> g.w, cells |-> [c \in DOMAIN g.cells |-> 0]]

NormRaise(name) == [raises |-> name, img |-> ZeroImage(NoGrid)]

NormReturn(g, cells) ==
    [raises |-> "", img |-> [h |-> g.h, w |-> g.w, cells |-> cells]]

\* variant: a grid without contrast becomes full scale
MinMaxFlatIsFullScale(g) ==
    LET vals == SortedValues(g.cells, DOMAIN g.cells)
        lo   == vals[1]
        hi   == vals[Len(vals)]
    IN  IF DOMAIN g.cells = {} THEN NormRaise("ValueError")
        ELSE IF RLess(lo, hi)
             THEN NormReturn(g, [c \in DOMAIN g.cells |->
                                    AsUint8(Scale255(g.cells[c], lo, hi))])
             ELSE NormReturn(g, [c \in DOMAIN g.cells |-> 255])

MinMaxNormalize(g) ==
    LET vals == SortedValues(g.cells, DOMAIN g.cells)
        lo   == vals[1]
        hi   == vals[Len(vals)]
    IN  IF DOMAIN g.cells = {} THEN NormRaise("ValueError")
        ELSE IF RLess(lo, hi)
             THEN NormReturn(g, [c \in DOMAIN g.cells |->
                                    AsUint8(Scale255(g.cells[c], lo, hi))])
             ELSE NormReturn(g, ZeroImage(g).cells)

\* variant: coinciding percentiles are not guarded, every positive cell
\* saturates
PercentileUnguarded(g, onEmpty) ==
    LET pos  == {c \in DOMAIN g.cells : RLess(RZero, g.cells[c])}
        vals == SortedValues(g.cells, pos)
        p1   == Percentile(vals, 1)
        p99  == Percentile(vals, 99)
    IN  IF pos = {}
        THEN IF onEmpty = "raise" THEN NormRaise("IndexError")
             ELSE NormReturn(g, ZeroImage(g).cells)
        ELSE IF RLess(p1, p99)
             THEN NormReturn(g, [c \in DOMAIN g.cells |->
                     AsUint8(RClip(Scale255(g.cells[c], p1, p99),
                                   RZero, RInt(255)))])
             ELSE NormReturn(g, [c \in DOMAIN g.cells |->
                     IF c \in pos THEN 255 ELSE 0])

\* onEmpty: what the build's np.percentile does on an empty array,
\* "raise" (IndexError) or "nan"
PercentileNormalize(g, onEmpty) ==
    LET pos  == {c \in DOMAIN g.cells : RLess(RZero, g.cells[c])}
        vals == SortedValues(g.cells, pos)
        p1   == Percentile(vals, 1)
        p99  == Percentile(vals, 99)
    IN  IF pos = {}
        THEN IF onEmpty = "raise" THEN NormRaise("IndexError")
             ELSE NormReturn(g, ZeroImage(g).cells)
        ELSE IF RLess(p1, p99)
             THEN NormReturn(g, [c \in DOMAIN g.cells |->
                     AsUint8(RClip(Scale255(g.cells[c], p1, p99),
                                   RZero, RInt(255)))])
             ELSE NormReturn(g, ZeroImage(g).cells)

normalize_intensity(g, method, onEmpty) ==
    IF method = "minmax" THEN MinMaxNormalize(g)
    ELSE IF method = "percentile" THEN PercentileNormalize(g, onEmpty)
    ELSE NormRaise("UnboundLocalError")

(***************************************************************************)
(* tools/make_bev_intensity.save_png_with_metadata                         *)
(***************************************************************************)
Metadata(img, a) ==
    [resolution_m_per_px |-> a.res,
     ppm                 |-> Rat(1, a.res),
     extent              |-> <<a.xmin, a.xmax, a.ymin, a.ymax>>,
     image_shape         |-> <<img.h, img.w>>,
     description         |-> "BEV intensity image from Waymo LiDAR data"]

Put(dir, name, doc) == [n \in DOMAIN dir \cup {name} |-> IF n = name THEN doc ELSE dir[n]]

\* cv2.imwrite raises on an empty image or when the environment fails it
ImwriteRaises(img, fault) == fault = "imwrite" \/ img.h = 0 \/ img.w = 0

\* the files after the call and the exception it raised ("" for none)
save_png_with_metadata(img, name, a, fault) ==
    IF ImwriteRaises(img, fault)
    THEN [pngs |-> pngs, metas |-> metas, raises |-> "cv2.error"]
    ELSE IF fault = "json"
    THEN [pngs |-> Put(pngs, name, img), metas |-> metas, raises |-> "OSError"]
    ELSE [pngs |-> Put(pngs, name, img),
          metas |-> Put(metas, name, Metadata(img, a)), raises |-> ""]

FrameFile(k) == <<"frame", k>>

CompositeFile == <<"composite", 0>>

(***************************************************************************)
(* tools/make_bev_intensity.parse_args / parse_frame_range                 *)
(***************************************************************************)
ReducerChoices == {"max", "mean"}

NormalizeChoices == {"minmax", "percentile"}

ArgparseRejects(a) ==
    a.reducer \notin ReducerChoices \/ a.normalize_method \notin NormalizeChoices

\* frames_str is [form, s, e]: "all"; "N" as form "single" with s = <<N>>;
\* "S..E" as form "range", an empty side being << >>
parse_frame_range(f) ==
    IF f.form = "all" THEN <<<< >>, << >>>>
    ELSE IF f.form = "range"
         THEN <<IF f.s # << >> THEN f.s ELSE <<0>>, f.e>>
         ELSE <<f.s, f.s>>

(***************************************************************************)
(* tools/make_bev_intensity.main                                           *)
(***************************************************************************)
\* if start_frame is not None and frame_count < start_frame
BeforeStart(fc, start) == start # << >> /\ fc < start[1]

\* variant: the end of the range is exclusive
AfterEndExclusive(fc, end) == end # << >> /\ fc >= end[1]

\* if end_frame is not None and frame_count > end_frame
AfterEnd(fc, end) == end # << >> /\ fc > end[1]

\* variant: the exception is not caught
AfterFrameErrorAborts == "aborted"

\* where the run goes after the except clause of the per-frame try
AfterFrameError == "loop"

\* variant: the latest frame replaces the composite
ElementwiseLatest(c, g) == g

\* composite accumulation
ElementwiseMax(c, g) ==
    [g EXCEPT !.cells = [x \in DOMAIN g.cells |-> RMax(c.cells[x], g.cells[x])]]

\* variant: the halving is left out
PairwiseSum(c, g) ==
    [g EXCEPT !.cells = [x \in DOMAIN g.cells |-> RAdd(c.cells[x], g.cells[x])]]

PairwiseAverage(c, g) ==
    [g EXCEPT !.cells = [x \in DOMAIN g.cells |->
                            RDiv(RAdd(c.cells[x], g.cells[x]), RInt(2))]]

Accumulate(comp, g, a) ==
    IF comp = << >> THEN <<g>>
    ELSE IF a.reducer = "max" THEN <<ElementwiseMax(comp[1], g)>>
    ELSE <<PairwiseAverage(comp[1], g)>>

\* variant: ppm is stored as the value of the default resolution
SummaryFixedPpm(a, processed, total) ==
    [frames_processed    |-> processed,
     total_frames        |-> total,
     resolution_m_per_px |-> a.res,
     ppm                 |-> RInt(5),
     extent              |-> <<a.xmin, a.xmax, a.ymin, a.ymax>>,
     reducer             |-> a.reducer,
     composite_mode      |-> a.composite,
     normalize_method    |-> a.normalize_method]

Summary(a, processed, total) ==
    [frames_processed    |-> processed,
     total_frames        |-> total,
     resolution_m_per_px |-> a.res,
     ppm                 |-> Rat(1, a.res),
     extent              |-> <<a.xmin, a.xmax, a.ymin, a.ymax>>,
     reducer             |-> a.reducer,
     composite_mode      |-> a.composite,
     normalize_method    |-> a.normalize_method]

\* variant: the grid is allocated once before the loop and every frame is
\* rasterised on top of what the frames before it left there
TryBodySharedGrid(pts, k, a, fault, onEmpty) ==
    LET same == [outcome |-> "", pngs |-> pngs, metas |-> metas,
                 comp |-> composite_grid, processed |-> processed_count]
        fresh == rasterize_bev(pts, a)
        g    == IF composite_grid = << >> \/ RasterizeRaises(a) THEN fresh
                ELSE ElementwiseMax(composite_grid[1], fresh)
        n    == normalize_intensity(g, a.normalize_method, onEmpty)
        sv   == save_png_with_metadata(n.img, FrameFile(k), a, fault)
    IN  IF fault = "extract" THEN [same EXCEPT !.outcome = "error"]
        ELSE IF Len(pts) = 0 THEN [same EXCEPT !.outcome = "nopoints"]
        ELSE IF RasterizeRaises(a) \/ LoopRaises(a, pts)
             THEN [same EXCEPT !.outcome = "error"]
        ELSE IF a.composite
             THEN [same EXCEPT !.outcome = "ok", !.comp = Accumulate(composite_grid, g, a),
                               !.processed = processed_count + 1]
        ELSE IF n.raises # "" THEN [same EXCEPT !.outcome = "error"]
        ELSE IF sv.raises # ""
             THEN [same EXCEPT !.outcome = "error", !.pngs = sv.pngs,
                               !.metas = sv.metas]
        ELSE [same EXCEPT !.outcome = "ok", !.pngs = sv.pngs, !.metas = sv.metas,
                          !.comp = <<g>>, !.processed = processed_count + 1]

\* the body of the per-frame try for frame k: what it leaves behind.
\* fault: "none", or the step the environment fails: "extract", "imwrite", "json"
TryBody(pts, k, a, fault, onEmpty) ==
    LET same == [outcome |-> "", pngs |-> pngs, metas |-> metas,
                 comp |-> composite_grid, processed |-> processed_count]
        g    == rasterize_bev(pts, a)
        n    == normalize_intensity(g, a.normalize_method, onEmpty)
        sv   == save_png_with_metadata(n.img, FrameFile(k), a, fault)
    IN  IF fault = "extract" THEN [same EXCEPT !.outcome = "error"]
        ELSE IF Len(pts) = 0 THEN [same EXCEPT !.outcome = "nopoints"]
        ELSE IF RasterizeRaises(a) \/ LoopRaises(a, pts)
             THEN [same EXCEPT !.outcome = "error"]
        ELSE IF a.composite
             THEN [same EXCEPT !.outcome = "ok", !.comp = Accumulate(composite_grid, g, a),
                               !.processed = processed_count + 1]
        ELSE IF n.raises # "" THEN [same EXCEPT !.outcome = "error"]
        ELSE IF sv.raises # ""
             THEN [same EXCEPT !.outcome = "error", !.pngs = sv.pngs,
                               !.metas = sv.metas]
        ELSE [same EXCEPT !.outcome = "ok", !.pngs = sv.pngs, !.metas = sv.metas,
                          !.processed = processed_count + 1]

(***************************************************************************)
(* Inputs of a run.                                                        *)
(***************************************************************************)
SingleFrame(n) == [form |-> "single", s |-> <<n>>, e |-> << >>]

FrameRange(s, e) == [form |-> "range", s |-> <<s>>, e |-> <<e>>]

\* --frames: all, 1, 0..1, 1..2 and the empty range 2..1
FramesArgs ==
    {AllFrames, SingleFrame(1), FrameRange(0, 1), FrameRange(1, 2), FrameRange(2, 1)}

DefaultArgs == MkArgs(<<0, 4, 0, 2>>, 2, "max", "minmax", FALSE, AllFrames)

ValidArgs ==
    {MkArgs(<<0, 4, 0, 2>>, 2, red, m, comp, f) :
        red \in ReducerChoices, m \in NormalizeChoices,
        comp \in BOOLEAN, f \in FramesArgs}

\* one invalid setting each: resolution <= 0, xmax <= xmin, ymax <= ymin,
\* unknown reducer, unknown normalization method, missing input file
InvalidArgs ==
    UNION {{[d EXCEPT !.res = 0], [d EXCEPT !.res = -2],
            [d EXCEPT !.xmin = 4], [d EXCEPT !.ymin = 2, !.ymax = 0],
            [d EXCEPT !.reducer = "median"],
            [d EXCEPT !.normalize_method = "zscore"],
            [d EXCEPT !.tfrecord_exists = FALSE]} :
           d \in {[DefaultArgs EXCEPT !.composite = c] : c \in BOOLEAN}}

\* the points extract_lidar_points_with_intensity returns for a frame: none,
\* one outside the extent, and two frames with in-extent points
FramePoints ==
    {<< >>, <<Pt(5, 1, 2)>>, <<Pt(1, 1, 3)>>, <<Pt(1, 1, 1), Pt(3, 1, 2)>>}

\* the step of a frame's processing that the environment fails
Faults == {"none", "extract", "imwrite", "json"}

\* np.percentile on an empty array, by numpy version
PercentileOnEmpty == {"raise", "nan"}

RasterIdle ==
    /\ r_pc = "idle" /\ points = << >> /\ grid = NoGrid /\ bev_grid = NoGrid

Init ==
    /\ args \in ValidArgs \cup InvalidArgs
    /\ pc = "start" /\ uncaught = ""
    /\ start_frame = << >> /\ end_frame = << >>
    /\ frame_count = 0 /\ processed_count = 0
    /\ composite_grid = << >>
    /\ pngs = << >> /\ metas = << >> /\ summary = << >>
    /\ trace = << >> /\ extracted = << >>
    /\ RasterIdle
    /\ NormIdle
    /\ SimpleIdle
    /\ ExtractIdle

\* main, from parse_args to the first iteration of the loop
Startup ==
    /\ pc = "start"
    /\ IF ArgparseRejects(args) \/ ~args.tfrecord_exists
       THEN /\ pc' = "aborted" /\ uncaught' = "SystemExit"
            /\ UNCHANGED <<start_frame, end_frame>>
       ELSE /\ start_frame' = parse_frame_range(args.frames)[1]
            /\ end_frame' = parse_frame_range(args.frames)[2]
            /\ IF args.res = 0
               THEN pc' = "aborted" /\ uncaught' = "ZeroDivisionError"
               ELSE pc' = "loop" /\ uncaught' = ""
    /\ UNCHANGED <<args, frame_count, processed_count, composite_grid, pngs,
                   metas, summary, trace, extracted, rastervars, normvars, simplevars, extractvars>>

\* the dataset yields a record that frame.ParseFromString cannot decode
RecordUnreadable ==
    /\ pc = "loop" /\ Len(trace) < MaxFrames
    /\ trace' = Append(trace, "unreadable")
    /\ extracted' = Append(extracted, << >>)
    /\ pc' = "aborted" /\ uncaught' = "DecodeError"
    /\ UNCHANGED <<args, start_frame, end_frame, frame_count, processed_count,
                   composite_grid, pngs, metas, summary, rastervars, normvars, simplevars, extractvars>>

\* a frame before the start of the range
SkipFrame ==
    /\ pc = "loop" /\ Len(trace) < MaxFrames
    /\ BeforeStart(frame_count, start_frame)
    /\ frame_count' = frame_count + 1
    /\ trace' = Append(trace, "skip")
    /\ extracted' = Append(extracted, << >>)
    /\ UNCHANGED <<args, pc, uncaught, start_frame, end_frame, processed_count,
                   composite_grid, pngs, metas, summary, rastervars, normvars, simplevars, extractvars>>

\* the first frame after the end of the range
BreakLoop ==
    /\ pc = "loop" /\ Len(trace) < MaxFrames
    /\ ~BeforeStart(frame_count, start_frame)
    /\ AfterEnd(frame_count, end_frame)
    /\ pc' = "finish"
    /\ trace' = Append(trace, "break")
    /\ extracted' = Append(extracted, << >>)
    /\ UNCHANGED <<args, uncaught, start_frame, end_frame, frame_count,
                   processed_count, composite_grid, pngs, metas, summary,
                   rastervars, normvars, simplevars, extractvars>>

IsError(outcome) == outcome = "error"

\* variant: the no-points path has no continue, so the frame is counted by
\* its own increment and again by the one after the try statement
FrameCountStepTwice(outcome) == IF outcome = "nopoints" THEN 2 ELSE 1

\* by how much a frame of the range advances frame_count: the increment
\* before continue on the no-points path, the one after the try otherwise
FrameCountStep(outcome) == 1

\* a frame of the range: the try statement and the increment after it
ProcessFrame ==
    /\ pc = "loop" /\ Len(trace) < MaxFrames
    /\ ~BeforeStart(frame_count, start_frame)
    /\ ~AfterEnd(frame_count, end_frame)
    /\ \E pts \in FramePoints, fault \in Faults, onEmpty \in PercentileOnEmpty :
          LET r == TryBody(pts, frame_count, args, fault, onEmpty)
          IN  /\ pngs' = r.pngs /\ metas' = r.metas
              /\ composite_grid' = r.comp
              /\ processed_count' = r.processed
              /\ trace' = Append(trace, r.outcome)
              /\ extracted' = Append(extracted,
                                     IF fault = "extract" THEN << >> ELSE pts)
              /\ pc' = IF IsError(r.outcome) THEN AfterFrameError ELSE "loop"
              /\ frame_count' = frame_count + FrameCountStep(r.outcome)
    /\ UNCHANGED <<args, uncaught, start_frame, end_frame, summary, rastervars,
                   normvars, simplevars, extractvars>>

\* the dataset is exhausted
StreamEnds ==
    /\ pc = "loop"
    /\ pc' = "finish"
    /\ UNCHANGED <<args, uncaught, start_frame, end_frame, frame_count,
                   processed_count, composite_grid, pngs, metas, summary, trace,
                   extracted, rastervars, normvars, simplevars, extractvars>>

\* after the loop: the composite, then processing_summary.json
Finish ==
    /\ pc = "finish"
    /\ \E fault \in Faults \ {"extract"}, onEmpty \in PercentileOnEmpty :
          LET n  == normalize_intensity(composite_grid[1], args.normalize_method,
                                        onEmpty)
              sv == save_png_with_metadata(n.img, CompositeFile, args, fault)
              written == <<Summary(args, processed_count, frame_count)>>
          IN  IF args.composite /\ composite_grid # << >>
              THEN IF n.raises # ""
                   THEN /\ pc' = "aborted" /\ uncaught' = n.raises
                        /\ UNCHANGED <<pngs, metas, summary>>
                   ELSE /\ pngs' = sv.pngs /\ metas' = sv.metas
                        /\ IF sv.raises # ""
                           THEN /\ pc' = "aborted" /\ uncaught' = sv.raises
                                /\ UNCHANGED summary
                           ELSE /\ pc' = "done" /\ uncaught' = ""
                                /\ summary' = written
              ELSE /\ pc' = "done" /\ uncaught' = ""
                   /\ summary' = written
                   /\ UNCHANGED <<pngs, metas>>
    /\ UNCHANGED <<args, start_frame, end_frame, frame_count, processed_count,
                   composite_grid, trace, extracted, rastervars, normvars, simplevars, extractvars>>

Next ==
    \/ Startup
    \/ SkipFrame
    \/ BreakLoop
    \/ ProcessFrame
    \/ RecordUnreadable
    \/ StreamEnds
    \/ Finish

Spec == Init /\ [][Next]_vars

(***************************************************************************)
(* Normaliser study: normalize_intensity applied to one grid.              *)
(***************************************************************************)
\* cell values a reducer can leave in a grid: empty cells, integer
\* intensities and a mean that is not an integer
NormValues == {RZero, RInt(1), RInt(2), RInt(4), RInt(7), Rat(5, 2)}

\* the grids of one row of NormWidth cells
NormGrids ==
    {[h |-> 1, w |-> NormWidth, cells |-> f] :
        f \in [Cells(1, NormWidth) -> NormValues]}

NInit ==
    /\ args = DefaultArgs
    /\ n_pc = "input"
    /\ n_grid \in NormGrids
    /\ n_method \in NormalizeChoices
    /\ normalized = << >>
    /\ RasterIdle
    /\ MainIdle
    /\ SimpleIdle
    /\ ExtractIdle

\* normalize_intensity(intensity_grid, args.normalize_method)
Normalize ==
    /\ n_pc = "input"
    /\ \E onEmpty \in PercentileOnEmpty :
          normalized' = <<normalize_intensity(n_grid, n_method, onEmpty)>>
    /\ n_pc' = "done"
    /\ UNCHANGED <<args, n_grid, n_method, rastervars, mainvars, simplevars, extractvars>>

NNext == Normalize

SpecNorm == NInit /\ [][NNext]_vars

(***************************************************************************)
(* simple_bev_generator.save_bev_image / process_tfrecord                  *)
(***************************************************************************)
\* the 8-bit image save_bev_image writes: bev_grid / bev_grid.max() * 255
\* if the maximum is above 0, the grid itself otherwise
SimpleNormalize(g) ==
    LET vals == SortedValues(g.cells, DOMAIN g.cells)
        hi   == vals[Len(vals)]
    IN  [h |-> g.h, w |-> g.w,
         cells |-> [c \in DOMAIN g.cells |->
                       IF RLess(RZero, hi)
                       THEN AsUint8(RMul(RDiv(g.cells[c], hi), RInt(255)))
                       ELSE AsUint8(g.cells[c])]]

\* variant: width and height are written in the other order
SimpleMetadataTransposed(img, a) ==
    [resolution_m_per_px |-> a.res,
     ppm                 |-> Rat(1, a.res),
     extent              |-> <<a.xmin, a.xmax, a.ymin, a.ymax>>,
     image_shape         |-> <<img.w, img.h>>,
     description         |-> "BEV intensity image from Waymo LiDAR data (simplified)"]

SimpleMetadata(img, a) ==
    [resolution_m_per_px |-> a.res,
     ppm                 |-> Rat(1, a.res),
     extent              |-> <<a.xmin, a.xmax, a.ymin, a.ymax>>,
     image_shape         |-> <<img.h, img.w>>,
     description         |-> "BEV intensity image from Waymo LiDAR data (simplified)"]

\* the files after the call, the exception it raised ("" for none) and the
\* shape it returns
save_bev_image(g, name, a, fault) ==
    LET img == SimpleNormalize(g)
    IN  IF g.h = 0 \/ g.w = 0
        THEN [pngs |-> s_pngs, metas |-> s_metas, raises |-> "ValueError",
              shape |-> << >>]
        ELSE IF fault = "imwrite"
        THEN [pngs |-> s_pngs, metas |-> s_metas, raises |-> "cv2.error",
              shape |-> << >>]
        ELSE IF fault = "json"
        THEN [pngs |-> Put(s_pngs, name, img), metas |-> s_metas,
              raises |-> "OSError", shape |-> << >>]
        ELSE [pngs |-> Put(s_pngs, name, img),
              metas |-> Put(s_metas, name, SimpleMetadata(img, a)),
              raises |-> "", shape |-> <<img.h, img.w>>]

\* the record appended to processed_frames
FrameRecord(k, pts, shape) ==
    [frame |-> k, output_file |-> FrameFile(k), points_count |-> Len(pts),
     image_shape |-> shape]

SimpleSummary(a, frames, total) ==
    [resolution_m_per_px    |-> a.res,
     ppm                    |-> Rat(1, a.res),
     extent                 |-> <<a.xmin, a.xmax, a.ymin, a.ymax>>,
     processed_frames       |-> Len(frames),
     total_frames_attempted |-> total,
     frames                 |-> frames]

\* the step of a frame's processing that fails: parse_waymo_frame raises,
\* extract_lidar_data returns (None, None), cv2.imwrite raises, the write of
\* the metadata file raises
SimpleFaults == {"none", "parse", "extract", "imwrite", "json"}

\* extent and resolution handed to process_tfrecord
SimpleArgs == {DefaultArgs, [DefaultArgs EXCEPT !.xmax = 5, !.ymax = 3, !.res = 1]}

\* process_tfrecord up to the first iteration of its loop
SInit ==
    /\ args \in SimpleArgs
    /\ s_pc = "loop"
    /\ max_frames \in 0 .. MaxFrames
    /\ s_frame_count = 0
    /\ processed_frames = << >>
    /\ s_pngs = << >> /\ s_metas = << >> /\ s_summary = << >>
    /\ s_trace = << >>
    /\ RasterIdle
    /\ MainIdle
    /\ NormIdle
    /\ ExtractIdle

\* one iteration of the loop over dataset.take(max_frames)
SimpleFrame ==
    /\ s_pc = "loop" /\ Len(s_trace) < max_frames
    /\ \E pts \in FramePoints, fault \in SimpleFaults :
          LET g  == simple_rasterize_bev(pts, args)
              sv == save_bev_image(g, FrameFile(s_frame_count), args, fault)
          IN  IF fault = "parse"
              THEN /\ s_trace' = Append(s_trace, "error")
                   /\ s_frame_count' = s_frame_count + 1
                   /\ UNCHANGED <<processed_frames, s_pngs, s_metas>>
              ELSE IF fault = "extract"
              THEN /\ s_trace' = Append(s_trace, "nodata")
                   /\ s_frame_count' = s_frame_count + 1
                   /\ UNCHANGED <<processed_frames, s_pngs, s_metas>>
              ELSE IF sv.raises # ""
              THEN /\ s_trace' = Append(s_trace, "error")
                   /\ s_frame_count' = s_frame_count + 1
                   /\ s_pngs' = sv.pngs /\ s_metas' = sv.metas
                   /\ UNCHANGED processed_frames
              ELSE /\ s_trace' = Append(s_trace, "ok")
                   /\ s_frame_count' = s_frame_count + 1
                   /\ s_pngs' = sv.pngs /\ s_metas' = sv.metas
                   /\ processed_frames' =
                          Append(processed_frames,
                                 FrameRecord(s_frame_count, pts, sv.shape))
    /\ UNCHANGED <<args, s_pc, max_frames, s_summary, rastervars, mainvars, normvars, extractvars>>

\* reading the next record raises: the outer except returns []
SimpleRecordUnreadable ==
    /\ s_pc = "loop" /\ Len(s_trace) < max_frames
    /\ s_pc' = "failed"
    /\ UNCHANGED <<args, max_frames, s_frame_count, processed_frames, s_pngs,
                   s_metas, s_summary, s_trace, rastervars, mainvars, normvars, extractvars>>

\* the loop is over (the stream ended or max_frames records were taken):
\* processing_summary.json is written, unless that write fails
SimpleFinish ==
    /\ s_pc = "loop"
    /\ \/ /\ s_summary' = <<SimpleSummary(args, processed_frames, s_frame_count)>>
          /\ s_pc' = "done"
       \/ /\ s_pc' = "failed"
          /\ UNCHANGED s_summary
    /\ UNCHANGED <<args, max_frames, s_frame_count, processed_frames, s_pngs,
                   s_metas, s_trace, rastervars, mainvars, normvars, extractvars>>

SNext == SimpleFrame \/ SimpleRecordUnreadable \/ SimpleFinish

SpecSimple == SInit /\ [][SNext]_vars

(***************************************************************************)
(* tools/extract_lidar_to_ply.main and tools/extract_camera_pngs.main: the *)
(* loop over the frames.  A file of the output directory is <<kind, k>>,   *)
(* k being the index in its name.                                          *)
(***************************************************************************)
\* the kinds of file a frame gives rise to, in the order they are written:
\* frame_k.ply and (with --to-laz) frame_k.laz; one cam_<camera>_k.png for
\* each camera of the frame
FrameOutputs(t) ==
    IF t = "lidar" THEN <<"ply", "laz">> ELSE <<"cam_front", "cam_front_left">>

\* how far a frame's processing gets: extraction raises; the frame has no
\* points or images; the first file is written and the next step raises;
\* everything is written
ExtractOutcomes == {"extract_raises", "empty", "partial", "ok"}

\* if frame_count % args.every != 0
SkippedByEvery(fc, n) == fc % n # 0

\* if args.max_frames and processed_count >= args.max_frames
MaxFramesReached(processed, m) == m # << >> /\ m[1] # 0 /\ processed >= m[1]

EInit ==
    /\ args = DefaultArgs
    /\ e_pc = "loop"
    /\ tool \in {"lidar", "camera"}
    /\ every \in 1 .. 2
    /\ e_max_frames \in {<< >>, <<1>>, <<2>>}
    /\ e_frame_count = 0 /\ e_processed_count = 0
    /\ e_files = {} /\ e_trace = << >>
    /\ RasterIdle
    /\ MainIdle
    /\ NormIdle
    /\ SimpleIdle

\* the record cannot be decoded: frame.ParseFromString raises outside the try
ExtractRecordUnreadable ==
    /\ e_pc = "loop" /\ Len(e_trace) < MaxFrames
    /\ e_trace' = Append(e_trace, "unreadable")
    /\ e_pc' = "aborted"
    /\ UNCHANGED <<args, tool, every, e_max_frames, e_frame_count,
                   e_processed_count, e_files, rastervars, mainvars, normvars,
                   simplevars>>

\* a frame that is not an Nth frame
ExtractSkip ==
    /\ e_pc = "loop" /\ Len(e_trace) < MaxFrames
    /\ SkippedByEvery(e_frame_count, every)
    /\ e_frame_count' = e_frame_count + 1
    /\ e_trace' = Append(e_trace, "skip")
    /\ UNCHANGED <<args, e_pc, tool, every, e_max_frames, e_processed_count,
                   e_files, rastervars, mainvars, normvars, simplevars>>

\* the limit of --max-frames is reached
ExtractBreak ==
    /\ e_pc = "loop" /\ Len(e_trace) < MaxFrames
    /\ ~SkippedByEvery(e_frame_count, every)
    /\ MaxFramesReached(e_processed_count, e_max_frames)
    /\ e_trace' = Append(e_trace, "break")
    /\ e_pc' = "done"
    /\ e_files' = IF tool = "camera" THEN e_files \cup {<<"summary", 0>>}
                  ELSE e_files
    /\ UNCHANGED <<args, tool, every, e_max_frames, e_frame_count,
                   e_processed_count, rastervars, mainvars, normvars, simplevars>>

\* an Nth frame below the limit: the try statement and the increment
ExtractFrame ==
    /\ e_pc = "loop" /\ Len(e_trace) < MaxFrames
    /\ ~SkippedByEvery(e_frame_count, every)
    /\ ~MaxFramesReached(e_processed_count, e_max_frames)
    /\ \E o \in ExtractOutcomes :
          /\ e_trace' = Append(e_trace, o)
          /\ e_files' =
                IF o = "ok"
                THEN e_files \cup {<<FrameOutputs(tool)[j], e_frame_count>> : j \in 1 .. 2}
                ELSE IF o = "partial"
                THEN e_files \cup {<<FrameOutputs(tool)[1], e_frame_count>>}
                ELSE e_files
          /\ e_processed_count' =
                IF o = "ok" THEN e_processed_count + 1 ELSE e_processed_count
    /\ e_frame_count' = e_frame_count + 1
    /\ UNCHANGED <<args, e_pc, tool, every, e_max_frames, rastervars, mainvars,
                   normvars, simplevars>>

\* the dataset is exhausted; extract_camera_pngs writes its summary
ExtractStreamEnds ==
    /\ e_pc = "loop"
    /\ e_pc' = "done"
    /\ e_files' = IF tool = "camera" THEN e_files \cup {<<"summary", 0>>}
                  ELSE e_files
    /\ UNCHANGED <<args, tool, every, e_max_frames, e_frame_count,
                   e_processed_count, e_trace, rastervars, mainvars, normvars,
                   simplevars>>

ENext ==
    \/ ExtractSkip
    \/ ExtractBreak
    \/ ExtractFrame
    \/ ExtractRecordUnreadable
    \/ ExtractStreamEnds

SpecExtract == EInit /\ [][ENext]_vars

(***************************************************************************)
(* A run of either tool.                                                   *)
(***************************************************************************)
ToolsInit == Init \/ SInit

ToolsNext == Next \/ SNext

SpecTools == ToolsInit /\ [][ToolsNext]_vars

(***************************************************************************)
(* Vocabulary of the run properties.                                       *)
(***************************************************************************)
\* stream index i belongs to the set the --frames value denotes
Denotes(f, i) ==
    IF f.form = "all" THEN TRUE
    ELSE IF f.form = "single" THEN i = f.s[1]
    ELSE f.s[1] <= i /\ i <= f.e[1]

\* stream indices of the frames that reached extraction
Attempted ==
    {i \in 0 .. Len(trace) - 1 : trace[i + 1] \in {"nopoints", "ok", "error"}}

LoopEnded == pc \in {"finish", "done"}

InvalidConfiguration(a) ==
    \/ a.res <= 0
    \/ a.xmax <= a.xmin
    \/ a.ymax <= a.ymin
    \/ a.reducer \notin {"max", "mean"}
    \/ a.normalize_method \notin {"minmax", "percentile"}

ValidConfiguration(a) == ~InvalidConfiguration(a) /\ a.tfrecord_exists

\* exceptions raised by reading a record of the stream
UpstreamReadExceptions == {"DecodeError"}

(***************************************************************************)
(* C1: the frames that reach extraction are exactly the stream indices the *)
(* --frames value denotes (S..E inclusive on both ends, a single N, all):  *)
(* no frame outside that set is ever extracted or written, and when the    *)
(* loop has ended every frame of the stream inside the set was extracted   *)
(* (after a break no later index is in the set).                           *)
(***************************************************************************)
C1_FrameRangeExact ==
    /\ \A i \in Attempted : Denotes(args.frames, i)
    /\ \A n \in DOMAIN pngs \cup DOMAIN metas :
           n[1] = "frame" => Denotes(args.frames, n[2])
    /\ LoopEnded =>
           /\ \A i \in 0 .. Len(trace) - 1 :
                  Denotes(args.frames, i) => i \in Attempted
           /\ (trace # << >> /\ trace[Len(trace)] = "break") =>
                  \A i \in Len(trace) .. MaxFrames + 2 : ~Denotes(args.frames, i)

C1_Witness ==
    /\ pc = "done"
    /\ args.frames = FrameRange(1, 2)
    /\ trace = <<"skip", "ok", "ok">>
    /\ DOMAIN pngs = {FrameFile(1), FrameFile(2)}

(***************************************************************************)
(* C2: a run with a valid configuration always reaches the end and writes  *)
(* the run summary whatever frames fail upstream reading: no exception of  *)
(* reading a record leaves main, a finished run has written the summary,   *)
(* and when no frame succeeded it reports frames_processed = 0.            *)
(***************************************************************************)
C2_RunAlwaysSummarised ==
    ValidConfiguration(args) =>
        /\ uncaught \notin UpstreamReadExceptions
        /\ pc = "done" =>
               /\ summary # << >>
               /\ (\A i \in 1 .. Len(trace) : trace[i] # "ok") =>
                      summary[1].frames_processed = 0

(***************************************************************************)
(* C3: a failure while processing frame k (extraction, rasterisation,      *)
(* normalisation or saving) is isolated: the step leaves the run in the    *)
(* loop at frame k + 1 with no exception escaping, leaves every output     *)
(* written before, the composite and the processed count unchanged, and    *)
(* when the loop has ended every later in-range frame was attempted.       *)
(***************************************************************************)
C3_FailureStep ==
    (pc = "loop" /\ Len(trace') = Len(trace) + 1 /\ trace'[Len(trace')] = "error") =>
        /\ pc' = "loop" /\ uncaught' = ""
        /\ frame_count' = frame_count + 1
        /\ \A n \in DOMAIN pngs : n \in DOMAIN pngs' /\ pngs'[n] = pngs[n]
        /\ \A n \in DOMAIN metas : n \in DOMAIN metas' /\ metas'[n] = metas[n]
        /\ composite_grid' = composite_grid
        /\ processed_count' = processed_count

C3_LaterFramesAttempted ==
    LoopEnded =>
        \A k \in 1 .. Len(trace) : trace[k] = "error" =>
            \A i \in k .. Len(trace) - 1 :
                Denotes(args.frames, i) => i \in Attempted

\* C3: every failing frame step is isolated, and after the loop every later
\* in-range frame was attempted
C3_FrameFailureIsolated == [][C3_FailureStep]_vars /\ []C3_LaterFramesAttempted

C3_Witness ==
    /\ pc = "done" /\ ~args.composite
    /\ trace = <<"ok", "error", "ok">>
    /\ FrameFile(0) \in DOMAIN pngs /\ FrameFile(0) \in DOMAIN metas
    /\ FrameFile(1) \in DOMAIN pngs /\ FrameFile(1) \notin DOMAIN metas
    /\ FrameFile(2) \in DOMAIN metas

(***************************************************************************)
(* C4: an invalid configuration (resolution <= 0, xmax <= xmin or          *)
(* ymax <= ymin, unknown reducer or normalisation method) is rejected      *)
(* before any frame is read or processed.                                  *)
(***************************************************************************)
C4_InvalidConfigRejectedFirst ==
    InvalidConfiguration(args) => trace = << >>

(***************************************************************************)
(* Vocabulary of the rasteriser properties.                                *)
(***************************************************************************)
\* the point lies in [xmin, xmax) x [ymin, ymax)
InsideExtent(a, p) ==
    /\ a.xmin <= p.x /\ p.x < a.xmax
    /\ a.ymin <= p.y /\ p.y < a.ymax

OnlyInside(a, pts) == SelectSeq(pts, LAMBDA p : InsideExtent(a, p))

InsertAt(pts, k, p) == SubSeq(pts, 1, k) \o <<p>> \o SubSeq(pts, k + 1, Len(pts))

Reorderings(pts) ==
    {[i \in 1 .. Len(pts) |-> pts[f[i]]] : f \in Permutations(1 .. Len(pts))}

\* indices of the in-extent points that the rasteriser maps to cell c
IndicesAt(a, pts, c) ==
    {i \in 1 .. Len(pts) :
        InsideExtent(a, pts[i]) /\ <<PixelY(a, pts[i]), PixelX(a, pts[i])>> = c}

SimpleIndicesAt(a, pts, c) ==
    {i \in 1 .. Len(pts) :
        InsideExtent(a, pts[i]) /\ <<YGrid(a, pts[i]), XGrid(a, pts[i])>> = c}

RECURSIVE SumOver(_, _)
SumOver(pts, S) ==
    IF S = {} THEN 0
    ELSE LET i == CHOOSE j \in S : TRUE
         IN  pts[i].intensity + SumOver(pts, S \ {i})

\* largest intensity among the points indexed by S, 0 for none
LargestOver(pts, S) ==
    IF S = {} THEN 0
    ELSE CHOOSE m \in {pts[i].intensity : i \in S} :
             \A i \in S : pts[i].intensity <= m

(***************************************************************************)
(* C5: for tools/make_bev_intensity.rasterize_bev, points outside          *)
(* [xmin, xmax) x [ymin, ymax) never influence the returned grid: the grid *)
(* of a frame is the grid of its in-extent points alone, and inserting one *)
(* more out-of-extent point at any position leaves it identical, for both  *)
(* reducers.                                                               *)
(***************************************************************************)
C5_OutsidePointsIgnored ==
    r_pc = "done" =>
        /\ grid = rasterize_bev(OnlyInside(args, points), args)
        /\ \A q \in Points : \A k \in 0 .. Len(points) :
               ~InsideExtent(args, q) =>
                   rasterize_bev(InsertAt(points, k, q), args) = grid

C5_Witness ==
    /\ r_pc = "done"
    /\ args.reducer = "mean"
    /\ Len(points) = 3
    /\ InsideExtent(args, points[2])
    /\ ~InsideExtent(args, points[1])
    /\ points[3] = points[1]
    /\ points[1].x >= args.xmax

(***************************************************************************)
(* C6: simple_bev_generator.rasterize_bev drops every point outside        *)
(* [xmin, xmax) x [ymin, ymax): its grid is the grid of the in-extent      *)
(* points alone, also for points less than one resolution step below xmin  *)
(* or ymin.                                                                *)
(***************************************************************************)
C6_SimpleDropsOutside ==
    r_pc = "done" =>
        bev_grid = simple_rasterize_bev(OnlyInside(args, points), args)

(***************************************************************************)
(* C7: the grid returned by either rasterize_bev has shape (height, width) *)
(* with width = floor((xmax - xmin) / resolution) and                      *)
(* height = floor((ymax - ymin) / resolution), on every return path; the   *)
(* extent (-80, 80, -80, 80) at resolution 0.2 (here in units of 0.2 m)    *)
(* gives 800 x 800.                                                        *)
(***************************************************************************)
C7_GridShape ==
    r_pc = "done" =>
        LET w == (args.xmax - args.xmin) \div args.res
            h == (args.ymax - args.ymin) \div args.res
            d == MkArgs(<<-400, 400, -400, 400>>, 1, "max", "minmax", FALSE, AllFrames)
        IN  /\ grid.h = h /\ grid.w = w /\ DOMAIN grid.cells = Cells(h, w)
            /\ bev_grid.h = h /\ bev_grid.w = w
            /\ DOMAIN bev_grid.cells = Cells(h, w)
            /\ Width(d) = 800 /\ Height(d) = 800

C7_Witness ==
    /\ r_pc = "done"
    /\ args.res = 2 /\ args.xmax = 5
    /\ grid.w = 2 /\ grid.h = 1
    /\ \E i \in 1 .. Len(points) : InsideExtent(args, points[i])
    /\ \E i \in 1 .. Len(points) : ~InsideExtent(args, points[i])

(***************************************************************************)
(* C8: with reducer = max the grid of tools/make_bev_intensity             *)
(* .rasterize_bev is the same for every permutation of the frame's points  *)
(* and is unchanged when any point is supplied once more.                  *)
(***************************************************************************)
C8_MaxOrderAndDuplicates ==
    (r_pc = "done" /\ args.reducer = "max") =>
        /\ \A q \in Reorderings(points) : rasterize_bev(q, args) = grid
        /\ \A i \in 1 .. Len(points) : \A k \in 0 .. Len(points) :
               rasterize_bev(InsertAt(points, k, points[i]), args) = grid

C8_Witness ==
    /\ r_pc = "done" /\ args.reducer = "max"
    /\ Len(points) = 3
    /\ \A i \in 1 .. 3 : InsideExtent(args, points[i])
    /\ PixelX(args, points[1]) = PixelX(args, points[2])
    /\ PixelX(args, points[2]) = PixelX(args, points[3])
    /\ points[1].intensity = 1 /\ points[2].intensity = 3
    /\ points[3].intensity = 2

(***************************************************************************)
(* C9: with reducer = max every cell of the grid returned by rasterize_bev *)
(* (both rasterisers) holds the largest intensity among the in-extent      *)
(* points mapped to that cell.                                             *)
(***************************************************************************)
C9_ToolsMaxPerCell ==
    (r_pc = "done" /\ args.reducer = "max") =>
        \A c \in Cells(grid.h, grid.w) :
            grid.cells[c] = RInt(LargestOver(points, IndicesAt(args, points, c)))

C9_SimpleMaxPerCell ==
    r_pc = "done" =>
        \A c \in Cells(bev_grid.h, bev_grid.w) :
            bev_grid.cells[c] =
                RInt(LargestOver(points, SimpleIndicesAt(args, points, c)))

\* C9: in the grid of either rasteriser every cell holds the largest intensity
\* among the in-extent points mapped to it
C9_MaxPerCell == C9_ToolsMaxPerCell /\ C9_SimpleMaxPerCell

(***************************************************************************)
(* C10: with reducer = mean every cell of the grid returned by             *)
(* tools/make_bev_intensity.rasterize_bev holds sum / count over the       *)
(* in-extent points mapped to that cell, and 0 when there is none.         *)
(***************************************************************************)
C10_MeanPerCell ==
    (r_pc = "done" /\ args.reducer = "mean") =>
        \A c \in Cells(grid.h, grid.w) :
            LET S == IndicesAt(args, points, c)
            IN  IF S = {} THEN grid.cells[c] = RZero
                ELSE grid.cells[c] = Rat(SumOver(points, S), Cardinality(S))

C10_Witness ==
    /\ r_pc = "done" /\ args.reducer = "mean"
    /\ Len(points) = 3
    /\ \E c \in Cells(grid.h, grid.w) :
           /\ Cardinality(IndicesAt(args, points, c)) = 3
           /\ grid.cells[c] = <<5, 3>>
    /\ \E c \in Cells(grid.h, grid.w) : IndicesAt(args, points, c) = {}

(***************************************************************************)
(* Vocabulary of the composite properties.                                 *)
(***************************************************************************)
\* positions in the stream of the frames merged into the composite
Merged == {i \in 1 .. Len(trace) : trace[i] = "ok"}

\* the per-frame grids merged into the composite, in frame order
MergedGrids ==
    LET idx == SelectSeq([i \in 1 .. Len(trace) |-> i], LAMBDA i : i \in Merged)
    IN  [k \in 1 .. Len(idx) |-> rasterize_bev(extracted[idx[k]], args)]

\* the composite after merging the grids gs one after the other
RECURSIVE MergeInOrder(_, _)
MergeInOrder(gs, a) ==
    IF gs = << >> THEN << >>
    ELSE Accumulate(MergeInOrder(SubSeq(gs, 1, Len(gs) - 1), a), gs[Len(gs)], a)

\* the largest of the values of cell c over the grids gs
LargestCell(gs, c) ==
    CHOOSE m \in {gs[k].cells[c] : k \in 1 .. Len(gs)} :
        \A k \in 1 .. Len(gs) : ~RLess(m, gs[k].cells[c])

RECURSIVE Pow2(_)
Pow2(k) == IF k = 0 THEN 1 ELSE 2 * Pow2(k - 1)

\* sum over i in from .. Len(gs) of gs[i][c] / 2^(Len(gs) - i + 1)
RECURSIVE WeightedTail(_, _, _)
WeightedTail(gs, c, from) ==
    IF from > Len(gs) THEN RZero
    ELSE RAdd(RDiv(gs[from].cells[c], RInt(Pow2(Len(gs) - from + 1))),
              WeightedTail(gs, c, from + 1))

\* g1 / 2^(n-1) + sum over i >= 2 of gi / 2^(n-i+1)
ClosedFormCell(gs, c) ==
    RAdd(RDiv(gs[1].cells[c], RInt(Pow2(Len(gs) - 1))), WeightedTail(gs, c, 2))

RECURSIVE CellSum(_, _, _)
CellSum(gs, c, from) ==
    IF from > Len(gs) THEN RZero
    ELSE RAdd(gs[from].cells[c], CellSum(gs, c, from + 1))

ArithmeticMeanCell(gs, c) == RDiv(CellSum(gs, c, 1), RInt(Len(gs)))

Reversed(gs) == [k \in 1 .. Len(gs) |-> gs[Len(gs) + 1 - k]]

(***************************************************************************)
(* C11: in composite mode with the max reducer the running composite is,   *)
(* after any sequence of merged frames, cell by cell the largest value of  *)
(* the per-frame grids merged so far (None before the first), and merging  *)
(* those grids in any other order gives the same composite.                *)
(***************************************************************************)
C11_CompositeMax ==
    (ValidConfiguration(args) /\ args.composite /\ args.reducer = "max") =>
        /\ (Merged = {}) = (composite_grid = << >>)
        /\ Merged # {} =>
               /\ composite_grid[1].h = Height(args)
               /\ composite_grid[1].w = Width(args)
               /\ \A c \in Cells(Height(args), Width(args)) :
                      composite_grid[1].cells[c] = LargestCell(MergedGrids, c)
               /\ \A o \in Reorderings(MergedGrids) :
                      MergeInOrder(o, args) = composite_grid

\* a frame with <<1, 2>> and then a frame with <<3, 0>>: the composite is
\* neither of them
C11_Witness ==
    /\ args.composite /\ args.reducer = "max" /\ ValidConfiguration(args)
    /\ trace = <<"ok", "ok">>
    /\ extracted = <<<<Pt(1, 1, 1), Pt(3, 1, 2)>>, <<Pt(1, 1, 3)>>>>
    /\ composite_grid[1].cells = [c \in Cells(1, 2) |->
                                     IF c = <<0, 0>> THEN RInt(3) ELSE RInt(2)]

(***************************************************************************)
(* C12: in composite mode with the mean reducer the composite starts as a  *)
(* copy of the first merged grid and each later grid g replaces it by      *)
(* (composite + g) / 2, so after g1..gn it is                              *)
(* g1 / 2^(n-1) + sum over i >= 2 of gi / 2^(n-i+1).  The witness is a run *)
(* of three frames whose composite is not their arithmetic mean and is not *)
(* what the reverse merge order gives.                                     *)
(***************************************************************************)
C12_CompositeMeanIsHalving ==
    (ValidConfiguration(args) /\ args.composite /\ args.reducer = "mean") =>
        /\ (Merged = {}) = (composite_grid = << >>)
        /\ Len(MergedGrids) = 1 => composite_grid = <<MergedGrids[1]>>
        /\ Merged # {} =>
               /\ composite_grid[1].h = Height(args)
               /\ composite_grid[1].w = Width(args)
               /\ \A c \in Cells(Height(args), Width(args)) :
                      composite_grid[1].cells[c] = ClosedFormCell(MergedGrids, c)

C12_Witness ==
    /\ args.composite /\ args.reducer = "mean" /\ ValidConfiguration(args)
    /\ trace = <<"ok", "ok", "ok">>
    /\ \E c \in Cells(Height(args), Width(args)) :
           /\ composite_grid[1].cells[c] # ArithmeticMeanCell(MergedGrids, c)
           /\ composite_grid[1].cells[c] #
                  MergeInOrder(Reversed(MergedGrids), args)[1].cells[c]

(***************************************************************************)
(* Vocabulary of the normalisation properties.                             *)
(***************************************************************************)
GridMin(g) ==
    CHOOSE m \in {g.cells[c] : c \in DOMAIN g.cells} :
        \A c \in DOMAIN g.cells : ~RLess(g.cells[c], m)

GridMax(g) ==
    CHOOSE m \in {g.cells[c] : c \in DOMAIN g.cells} :
        \A c \in DOMAIN g.cells : ~RLess(m, g.cells[c])

PositiveCells(g) == {c \in DOMAIN g.cells : RLess(RZero, g.cells[c])}

\* the call returned an image of the grid's shape with every pixel 0
ReturnedAllZero(res, g) ==
    /\ res.raises = ""
    /\ res.img.h = g.h /\ res.img.w = g.w
    /\ DOMAIN res.img.cells = DOMAIN g.cells
    /\ \A c \in DOMAIN g.cells : res.img.cells[c] = 0

\* integer k is a nearest integer of the rational q
IsNearest(k, q) == 2 * Abs(k * q[2] - q[1]) <= q[2]

(***************************************************************************)
(* C13: with method minmax, a grid whose cells all hold the same value     *)
(* (max <= min), the all-zero grid included, is returned as an all-zero    *)
(* image of the same shape, and no exception is raised.                    *)
(***************************************************************************)
C13_MinMaxFlatIsZero ==
    (n_pc = "done" /\ n_method = "minmax"
        /\ ~RLess(GridMin(n_grid), GridMax(n_grid))) =>
        ReturnedAllZero(normalized[1], n_grid)

\* every cell holds 7
C13_Witness ==
    /\ n_pc = "done" /\ n_method = "minmax"
    /\ \A c \in DOMAIN n_grid.cells : n_grid.cells[c] = RInt(7)
    /\ ReturnedAllZero(normalized[1], n_grid)

(***************************************************************************)
(* C14: with method percentile, a grid with no cell above 0 (the all-zero  *)
(* grid) never makes normalize_intensity raise: the call returns an        *)
(* all-zero image of the same shape.                                       *)
(***************************************************************************)
C14_PercentileNoPositiveCell ==
    (n_pc = "done" /\ n_method = "percentile" /\ PositiveCells(n_grid) = {}) =>
        ReturnedAllZero(normalized[1], n_grid)

(***************************************************************************)
(* C15: with method percentile, when the 1st and the 99th percentile of    *)
(* the cells above 0 coincide (p99 <= p1), as when all positive cells are  *)
(* equal, the call returns an all-zero image of the same shape.            *)
(***************************************************************************)
C15_PercentileDegenerateIsZero ==
    LET vals == SortedValues(n_grid.cells, PositiveCells(n_grid))
    IN  (n_pc = "done" /\ n_method = "percentile" /\ PositiveCells(n_grid) # {}) =>
            /\ ~RLess(Percentile(vals, 1), Percentile(vals, 99)) =>
                   ReturnedAllZero(normalized[1], n_grid)
            /\ vals[1] = vals[Len(vals)] =>
                   ReturnedAllZero(normalized[1], n_grid)

\* one empty cell and two cells holding 4
C15_Witness ==
    /\ n_pc = "done" /\ n_method = "percentile"
    /\ Cardinality(PositiveCells(n_grid)) = 2
    /\ \A c \in PositiveCells(n_grid) : n_grid.cells[c] = RInt(4)
    /\ ReturnedAllZero(normalized[1], n_grid)

(***************************************************************************)
(* C16: with method minmax and max > min, every cell holding the grid's    *)
(* maximum becomes 255 and every cell holding its minimum becomes 0; a     *)
(* grid with exactly one nonzero cell becomes 255 there and 0 elsewhere.   *)
(***************************************************************************)
C16_MinMaxEndpoints ==
    (n_pc = "done" /\ n_method = "minmax"
        /\ RLess(GridMin(n_grid), GridMax(n_grid))) =>
        /\ normalized[1].raises = ""
        /\ \A c \in DOMAIN n_grid.cells :
               /\ n_grid.cells[c] = GridMax(n_grid) => normalized[1].img.cells[c] = 255
               /\ n_grid.cells[c] = GridMin(n_grid) => normalized[1].img.cells[c] = 0
        /\ Cardinality(PositiveCells(n_grid)) = 1 =>
               \A c \in DOMAIN n_grid.cells :
                   normalized[1].img.cells[c] =
                       IF c \in PositiveCells(n_grid) THEN 255 ELSE 0

\* a grid holding 2, 4 and 7: its minimum is not 0
C16_Witness ==
    /\ n_pc = "done" /\ n_method = "minmax"
    /\ GridMin(n_grid) = RInt(2) /\ GridMax(n_grid) = RInt(7)
    /\ \E c \in DOMAIN n_grid.cells :
           n_grid.cells[c] = RInt(7) /\ normalized[1].img.cells[c] = 255
    /\ \E c \in DOMAIN n_grid.cells :
           n_grid.cells[c] = RInt(2) /\ normalized[1].img.cells[c] = 0
    /\ \E c \in DOMAIN n_grid.cells :
           n_grid.cells[c] = RInt(4) /\ normalized[1].img.cells[c] = 102

(***************************************************************************)
(* C17: with method minmax and max > min, every output pixel is            *)
(* (v - lo) / (hi - lo) * 255 rounded to the nearest integer, and lies in  *)
(* 0..255.                                                                 *)
(***************************************************************************)
C17_MinMaxRoundsToNearest ==
    (n_pc = "done" /\ n_method = "minmax"
        /\ RLess(GridMin(n_grid), GridMax(n_grid))) =>
        /\ normalized[1].raises = ""
        /\ \A c \in DOMAIN n_grid.cells :
               /\ normalized[1].img.cells[c] \in 0 .. 255
               /\ IsNearest(normalized[1].img.cells[c],
                            RMul(RDiv(RSub(n_grid.cells[c], GridMin(n_grid)),
                                      RSub(GridMax(n_grid), GridMin(n_grid))),
                                 RInt(255)))

(***************************************************************************)
(* C18: the three rasterisers use one vertical-axis convention.  On the    *)
(* points of one frame, tools/make_bev_intensity.rasterize_bev and         *)
(* simple_bev_generator.rasterize_bev place every in-extent point that    *)
(* both keep in the same row, and convert_laz_to_intensity_png (whose raster spans the      *)
(* bounding box of the points rather than a given extent) orders the rows  *)
(* the same way: of two in-extent points, the one that the tools put in    *)
(* the lower-numbered row is not put in the higher-numbered row by         *)
(* convert_laz_to_intensity_png.                                           *)
(***************************************************************************)
C18_OneVerticalConvention ==
    r_pc = "done" =>
        \A i, j \in 1 .. Len(points) :
            (InsideExtent(args, points[i]) /\ InsideExtent(args, points[j])) =>
                /\ GridMask(args, points[i]) =>
                       PixelY(args, points[i]) = YGrid(args, points[i])
                /\ PixelY(args, points[i]) < PixelY(args, points[j]) =>
                       LazPy(points, args.res, points[i])
                           <= LazPy(points, args.res, points[j])

(***************************************************************************)
(* Vocabulary of the per-frame output properties.                          *)
(***************************************************************************)
\* positions in the stream of the frames that came through the per-frame
\* try without an exception and yielded no point inside the extent
ZeroInExtentFrames ==
    {i \in 1 .. Len(trace) :
        /\ trace[i] \in {"nopoints", "ok"}
        /\ OnlyInside(args, extracted[i]) = << >>}

(***************************************************************************)
(* C19: main treats every frame that yields zero in-extent points the same *)
(* way, whether the frame has no points at all or only points outside the  *)
(* extent: either all of them are emitted and counted as processed, or all *)
(* of them are skipped.                                                    *)
(***************************************************************************)
C19_EmptyFramesTreatedAlike ==
    ValidConfiguration(args) =>
        \/ \A i \in ZeroInExtentFrames : trace[i] = "ok"
        \/ \A i \in ZeroInExtentFrames : trace[i] = "nopoints"

(***************************************************************************)
(* C20: outside composite mode the output of a frame is completely written *)
(* before the next frame starts: at every frame boundary and at the end of *)
(* the run, whatever failed in a frame, each raster in the output          *)
(* directory has its metadata sidecar and each sidecar has its raster.     *)
(***************************************************************************)
C20_RasterAndSidecarTogether ==
    (ValidConfiguration(args) /\ ~args.composite) => DOMAIN pngs = DOMAIN metas

(***************************************************************************)
(* Vocabulary of the output-count properties.                              *)
(***************************************************************************)
\* exceptions that the environment puts into a write of the composite
WriteFaultExceptions == {"cv2.error", "OSError"}

\* the run is over and no record read or file write was failed from outside
RunOverWithoutFault ==
    \/ pc = "done"
    \/ pc = "aborted" /\ uncaught \notin WriteFaultExceptions \cup UpstreamReadExceptions

FrameRasters == {n \in DOMAIN pngs : n[1] = "frame"}

(***************************************************************************)
(* C21: with --composite no per-frame raster is ever written, and after    *)
(* the last frame exactly one raster, the composite, has been written if   *)
(* at least one frame was rasterised and none otherwise; without           *)
(* --composite each successfully processed frame has its one raster and no *)
(* composite is ever written.                                              *)
(***************************************************************************)
C21_CompositeOrPerFrame ==
    ValidConfiguration(args) =>
        /\ args.composite =>
               /\ FrameRasters = {}
               /\ RunOverWithoutFault =>
                      DOMAIN pngs = IF Merged # {} THEN {CompositeFile} ELSE {}
        /\ ~args.composite =>
               /\ CompositeFile \notin DOMAIN pngs
               /\ \A i \in Merged : FrameFile(i - 1) \in DOMAIN pngs

(***************************************************************************)
(* Vocabulary of the frame-independence property.                          *)
(***************************************************************************)
\* the image that the frame's points and the configuration alone determine
RasterOfFrame(pts, a) ==
    normalize_intensity(rasterize_bev(pts, a), a.normalize_method, "nan").img

(***************************************************************************)
(* C22: outside composite mode the raster written for a frame depends only *)
(* on that frame's points and the run configuration: whatever other frames *)
(* the run processed before or after it, and in whatever order, the file   *)
(* of the frame at stream position i holds the image determined by that    *)
(* frame's points and the configuration alone.                             *)
(***************************************************************************)
C22_FrameRasterIndependent ==
    (ValidConfiguration(args) /\ ~args.composite) =>
        \A i \in 1 .. Len(trace) :
            FrameFile(i - 1) \in DOMAIN pngs =>
                pngs[FrameFile(i - 1)] = RasterOfFrame(extracted[i], args)

\* the same frame first and last with a brighter frame in between: the two
\* rasters of the same frame are equal and differ from the one between them
C22_Witness ==
    /\ ~args.composite /\ ValidConfiguration(args)
    /\ trace = <<"ok", "ok", "ok">>
    /\ extracted = <<<<Pt(1, 1, 1), Pt(3, 1, 2)>>, <<Pt(1, 1, 3)>>,
                     <<Pt(1, 1, 1), Pt(3, 1, 2)>>>>
    /\ pngs[FrameFile(0)] = pngs[FrameFile(2)]
    /\ pngs[FrameFile(0)] # pngs[FrameFile(1)]

(***************************************************************************)
(* Vocabulary of the document properties.                                  *)
(***************************************************************************)
\* every metadata sidecar and run summary in the two output directories
EmittedDocuments ==
    {metas[n] : n \in DOMAIN metas} \cup {s_metas[n] : n \in DOMAIN s_metas}
        \cup {summary[i] : i \in DOMAIN summary}
        \cup {s_summary[i] : i \in DOMAIN s_summary}

\* the sidecar that resolution and extent alone determine
SidecarOfConfiguration(a, description) ==
    [resolution_m_per_px |-> a.res,
     ppm                 |-> Rat(1, a.res),
     extent              |-> <<a.xmin, a.xmax, a.ymin, a.ymax>>,
     image_shape         |-> <<IntTrunc(a.ymax - a.ymin, a.res),
                               IntTrunc(a.xmax - a.xmin, a.res)>>,
     description         |-> description]

(***************************************************************************)
(* C23: in every metadata sidecar and every run summary that the tools     *)
(* write, ppm is 1 / resolution of the same document:                      *)
(* ppm * resolution_m_per_px = 1.                                          *)
(***************************************************************************)
C23_PpmTimesResolutionIsOne ==
    \A d \in EmittedDocuments :
        RMul(d.ppm, RInt(d.resolution_m_per_px)) = RInt(1)

\* a finished run of make_bev_intensity with a sidecar and the summary
C23_Witness ==
    /\ pc = "done" /\ summary # << >> /\ metas # << >>
    /\ summary[1].resolution_m_per_px = 2 /\ summary[1].ppm = <<1, 2>>
    /\ \A n \in DOMAIN metas : metas[n].ppm = <<1, 2>>

C25_SummaryCounts ==
    (ValidConfiguration(args) /\ summary # << >>) =>
        /\ summary[1].total_frames = Cardinality(Attempted)
        /\ summary[1].frames_processed = Cardinality(Merged)
        /\ summary[1].frames_processed <= summary[1].total_frames

(***************************************************************************)
(* C26: in the summary simple_bev_generator.process_tfrecord writes, after *)
(* any sequence of per-frame successes and failures, the frames list holds *)
(* exactly one record for each frame whose raster was saved, in strictly   *)
(* increasing frame index; processed_frames is the length of that list;    *)
(* total_frames_attempted is the number of records consumed; and           *)
(* processed_frames <= total_frames_attempted <= max_frames.               *)
(***************************************************************************)
C26_SimpleSummaryCounts ==
    s_summary # << >> =>
        LET doc == s_summary[1]
        IN  /\ {doc.frames[k].output_file : k \in 1 .. Len(doc.frames)} = DOMAIN s_pngs
            /\ \A k \in 1 .. Len(doc.frames) :
                   doc.frames[k].output_file = FrameFile(doc.frames[k].frame)
            /\ \A k \in 1 .. Len(doc.frames) - 1 :
                   doc.frames[k].frame < doc.frames[k + 1].frame
            /\ doc.processed_frames = Len(doc.frames)
            /\ doc.total_frames_attempted = Len(s_trace)
            /\ doc.processed_frames <= doc.total_frames_attempted
            /\ doc.total_frames_attempted <= max_frames

(***************************************************************************)
(* Vocabulary of the cell-mapping properties.                              *)
(***************************************************************************)
\* floor(n / d) for d > 0
FloorDiv(n, d) == n \div d

\* the cell the mapping row = floor((y - ymin) / resolution),
\* col = floor((x - xmin) / resolution) gives a point
FloorCell(a, p) == <<FloorDiv(p.y - a.ymin, a.res), FloorDiv(p.x - a.xmin, a.res)>>

(***************************************************************************)
(* C27: tools/make_bev_intensity.rasterize_bev accumulates every in-extent *)
(* point into the cell with row = floor((y - ymin) / resolution) and       *)
(* col = floor((x - xmin) / resolution), for every valid extent and        *)
(* resolution, also when the extent is not an integer multiple of the      *)
(* resolution: that cell is a cell of the grid, it is the cell the         *)
(* rasteriser writes the point to, and under the max reducer it holds at   *)
(* least the point's intensity.                                            *)
(***************************************************************************)
C27_FloorCellMapping ==
    r_pc = "done" =>
        \A i \in 1 .. Len(points) :
            InsideExtent(args, points[i]) =>
                /\ FloorCell(args, points[i]) \in Cells(grid.h, grid.w)
                /\ <<PixelY(args, points[i]), PixelX(args, points[i])>>
                       = FloorCell(args, points[i])
                /\ args.reducer = "max" =>
                       ~RLess(grid.cells[FloorCell(args, points[i])],
                              RInt(points[i].intensity))

(***************************************************************************)
(* C29: every cell index tools/make_bev_intensity.rasterize_bev writes to  *)
(* lies inside the grid (0 <= row < height, 0 <= col < width) for every    *)
(* in-extent point, also when xmax - xmin or ymax - ymin is not an integer *)
(* multiple of the resolution: no accepted point makes the call raise on   *)
(* an out-of-range index, and every accepted point is accumulated into one *)
(* cell of the returned grid.                                              *)
(***************************************************************************)
C29_WrittenIndicesInGrid ==
    r_pc # "input" =>
        /\ r_pc # "raised"
        /\ \A i \in 1 .. Len(points) :
               InsideExtent(args, points[i]) =>
                   /\ PixelY(args, points[i]) \in 0 .. grid.h - 1
                   /\ PixelX(args, points[i]) \in 0 .. grid.w - 1
                   /\ Cardinality({c \in Cells(grid.h, grid.w) :
                                       i \in IndicesAt(args, points, c)}) = 1

(***************************************************************************)
(* Vocabulary of the extract-tool property.                                *)
(***************************************************************************)
\* the stream indices that the names of the per-frame output files carry
FramesWithOutput == {f[2] : f \in {g \in e_files : g[1] # "summary"}}

(***************************************************************************)
(* C28: with --every N and --max-frames M (M >= 1) the two extract tools   *)
(* write output only for frames whose stream index is a multiple of N,     *)
(* name each output after the stream index of the frame it comes from, and *)
(* never leave output for more than M frames, under any pattern of empty   *)
(* and failing frames.                                                     *)
(***************************************************************************)
C28_EveryAndMaxFrames ==
    (e_max_frames # << >> /\ e_max_frames[1] >= 1) =>
        /\ \A k \in FramesWithOutput :
               /\ k % every = 0
               /\ k + 1 \in 1 .. Len(e_trace)
               /\ e_trace[k + 1] \in {"partial", "ok"}
        /\ Cardinality(FramesWithOutput) <= e_max_frames[1]

(***************************************************************************)
(* Vocabulary of the frame-counter property.                               *)
(***************************************************************************)
\* positions in the stream of the records that count as consumed frames:
\* all but the record on which the loop is left
ConsumedFrames == {i \in 1 .. Len(trace) : trace[i] \notin {"break", "unreadable"}}

====
